---- MODULE Spec2Model ----
(***************************************************************************)
(* Model of src/nqueen.py: the NQueenSolver board state (queens, cols,     *)
(* diag1, diag2) and its resumable backtracking search solve_generator,    *)
(* a recursive Python generator that is resumed one event at a time.       *)
(*                                                                         *)
(* The generator's call structure (one frame per active solve_generator    *)
(* call, linked by "yield from") is the variable stack; every frame holds  *)
(* its locals row and col and the yield at which it is suspended.          *)
(***************************************************************************)
EXTENDS Integers, Sequences, FiniteSets, TLC

VARIABLES
    N,               \* the N argument of NQueenSolver(N, initial_queens)
    initial_queens,  \* the initial_queens argument: a sequence of <<r, c>>
    solver,          \* "none" before construction, "ok", or the exception
                     \* that __init__ raised ("IndexError")
    queens,          \* self.queens: 0..N-1 -> column, or Empty
    cols,            \* self.cols
    diag1,           \* self.diag1, keys r - c
    diag2,           \* self.diag2, keys r + c
    gen,             \* the generator object: "none", "ready" (created, not
                     \* started), "running" (suspended at a yield), "done"
    stack,           \* frames of the suspended generator, outermost first
    results,         \* what each next(gen) gave its caller, in order
    snapshots,       \* the list objects handed out with the Solution events,
                     \* in order: [copy, at], the list's content when it was
                     \* handed out and whether it is a list of its own
    lastCall,        \* the last direct call of place_queen or remove_queen
                     \* by a caller other than the search: [n, op, r, c,
                     \* before, fault], n counting the calls so far
    size_var,        \* NQueenGUI.size_var: the value in the size Spinbox
    gui_N,           \* NQueenGUI.N: the size of the board that is drawn
    queen_items,     \* the keys of NQueenGUI.queen_items, in insertion order
    next_button,     \* state of the Next Solution button
    solution_counter,\* NQueenGUI.solution_counter
    timers,          \* pending root.after(step_delay, animate_step) callbacks
    callback,        \* "animate" while a handler is about to call
                     \* animate_step, else "idle" (the event loop is waiting)
    paused,          \* animate_step consumed a solution and the user has
                     \* pressed neither Next Solution nor Start Solving since
    passed           \* <<N, initial>> of the last NQueenSolver(N, initial)
                     \* made by start_solver; <<>> before the first

vars == <<N, initial_queens, solver, queens, cols, diag1, diag2, gen, stack,
          results, snapshots, lastCall, size_var, gui_N, queen_items,
          next_button, solution_counter, timers, callback, paused, passed>>

\* The driver's own state.
guiVars == <<size_var, gui_N, queen_items, next_button, solution_counter,
             timers, callback, paused, passed>>

(* ------------------------------ bounds -------------------------------- *)

\* Largest board of the seeded specification.
MaxN == 4
\* Longest partial seed of the seeded specification (full seeds of length N
\* are drawn as well).
MaxSeedLen == 2
\* Largest board of the unseeded specification.
MaxNUnseeded == 6
\* Largest board and longest seed of the specification with arbitrary seeds.
MaxNAny == 3
MaxAnyLen == 2
\* How many times the caller resumes an exhausted generator.
MaxDone == 2
\* Largest board and number of calls of the specification of direct calls
\* of place_queen and remove_queen.
MaxNDirect == 3
MaxCalls == 3
\* Largest board size entered in the driver's Spinbox, and the most
\* animate_step callbacks pending when the user presses a button.
MaxGuiN == 3
MaxTimers == 2

(* ------------------------------ board --------------------------------- *)

\* The sentinel of an empty row: self.queens = [-1] * N.
Empty == -1

\* [-1] * N; a negative N gives the empty list.
EmptyQueens(n) == [r \in 0..(n - 1) |-> Empty]

EmptyBoard(n) ==
    [queens |-> EmptyQueens(n), cols |-> {}, diag1 |-> {}, diag2 |-> {}]

\* The solver's fields as one record.
Board == [queens |-> queens, cols |-> cols, diag1 |-> diag1, diag2 |-> diag2]

\* len(self.queens)
QLen(b) == Cardinality(DOMAIN b.queens)

\* self.queens[r] = c raises IndexError unless -len <= r < len.
IndexRaises(b, r) == r >= QLen(b) \/ r < -QLen(b)

\* The element a Python list index r denotes: a negative r counts from the end.
ListIndex(b, r) == IF r < 0 THEN r + QLen(b) ELSE r

\* place_queen that records the column only.
PlaceQueenNoDiag(b, r, c) ==
    [queens |-> [b.queens EXCEPT ![ListIndex(b, r)] = c],
     cols   |-> b.cols \cup {c},
     diag1  |-> b.diag1,
     diag2  |-> b.diag2]

\* place_queen(r, c), when the index does not raise.
PlaceQueen(b, r, c) ==
    [queens |-> [b.queens EXCEPT ![ListIndex(b, r)] = c],
     cols   |-> b.cols \cup {c},
     diag1  |-> b.diag1 \cup {r - c},
     diag2  |-> b.diag2 \cup {r + c}]

\* remove_queen that leaves the column recorded.
RemoveQueenKeepCol(b, r, c) ==
    [queens |-> [b.queens EXCEPT ![ListIndex(b, r)] = Empty],
     cols   |-> b.cols,
     diag1  |-> b.diag1 \ {r - c},
     diag2  |-> b.diag2 \ {r + c}]

\* remove_queen(r, c), called by the search on the queen it placed.
RemoveQueen(b, r, c) ==
    [queens |-> [b.queens EXCEPT ![ListIndex(b, r)] = Empty],
     cols   |-> b.cols \ {c},
     diag1  |-> b.diag1 \ {r - c},
     diag2  |-> b.diag2 \ {r + c}]

\* is_safe without the r + c diagonal.
IsSafeNoDiag2(b, r, c) ==
    /\ c \notin b.cols
    /\ (r - c) \notin b.diag1

\* is_safe(r, c)
IsSafe(b, r, c) ==
    /\ c \notin b.cols
    /\ (r - c) \notin b.diag1
    /\ (r + c) \notin b.diag2

(* --------------------------- construction ----------------------------- *)

RECURSIVE SeedRaises(_, _, _)
\* Whether the loop of __init__ raises while placing seed[i..].
SeedRaises(b, seed, i) ==
    IF i > Len(seed) THEN FALSE
    ELSE IF IndexRaises(b, seed[i][1]) THEN TRUE
    ELSE SeedRaises(PlaceQueen(b, seed[i][1], seed[i][2]), seed, i + 1)

RECURSIVE PlaceSeed(_, _, _)
\* The loop of __init__: place_queen on every pair of the seed, in order,
\* with no check of any kind.
PlaceSeed(b, seed, i) ==
    IF i > Len(seed) THEN b
    ELSE PlaceSeed(PlaceQueen(b, seed[i][1], seed[i][2]), seed, i + 1)

\* The board __init__ builds for (n, seed), when it does not raise.
InitBoard(n, seed) == PlaceSeed(EmptyBoard(n), seed, 1)

\* NQueenSolver(N, initial_queens) followed by solver.solve_generator():
\* calling a generator function runs none of its body.
Construct ==
    /\ solver = "none"
    /\ IF SeedRaises(EmptyBoard(N), initial_queens, 1)
       THEN /\ solver' = "IndexError"
            /\ UNCHANGED <<queens, cols, diag1, diag2, gen>>
       ELSE LET b == InitBoard(N, initial_queens) IN
            /\ solver' = "ok"
            /\ queens' = b.queens
            /\ cols' = b.cols
            /\ diag1' = b.diag1
            /\ diag2' = b.diag2
            /\ gen' = "ready"
    /\ UNCHANGED <<N, initial_queens, stack, results, snapshots, lastCall>>
    /\ UNCHANGED guiVars

(* ------------------------------ search -------------------------------- *)

\* next(gen) on a finished generator raises StopIteration.
StopIteration == <<"done">>

\* The row skip with "if" in place of "while".
NextEmptyRowOneStep(q, row) ==
    IF row < N /\ q[row] # Empty THEN row + 1 ELSE row

RECURSIVE NextEmptyRow(_, _)
\* while row < self.N and self.queens[row] != -1: row += 1
NextEmptyRow(q, row) ==
    IF row < N /\ q[row] # Empty THEN NextEmptyRow(q, row + 1) ELSE row

\* A return whose caller yields "remove" without calling remove_queen.
ReturnNoRemove(stk, b) ==
    IF stk = <<>>
    THEN [stack |-> <<>>, board |-> b, event |-> StopIteration, gen |-> "done"]
    ELSE LET p == stk[Len(stk)] IN
         [stack |-> [stk EXCEPT ![Len(stk)].pc = "remove"],
          board |-> b,
          event |-> <<"remove", p.row, p.col>>,
          gen   |-> "running"]

\* A return that leaves the exhausted generator ready to run again.
ReturnRestart(stk, b) ==
    IF stk = <<>>
    THEN [stack |-> <<>>, board |-> b, event |-> StopIteration, gen |-> "ready"]
    ELSE LET p == stk[Len(stk)] IN
         [stack |-> [stk EXCEPT ![Len(stk)].pc = "remove"],
          board |-> RemoveQueen(b, p.row, p.col),
          event |-> <<"remove", p.row, p.col>>,
          gen   |-> "running"]

\* A frame returns to the frames stk below it. With no caller the generator
\* is finished; otherwise the caller leaves its "yield from", removes its
\* queen and yields ("remove", row, col).
Return(stk, b) ==
    IF stk = <<>>
    THEN [stack |-> <<>>, board |-> b, event |-> StopIteration, gen |-> "done"]
    ELSE LET p == stk[Len(stk)] IN
         [stack |-> [stk EXCEPT ![Len(stk)].pc = "remove"],
          board |-> RemoveQueen(b, p.row, p.col),
          event |-> <<"remove", p.row, p.col>>,
          gen   |-> "running"]

\* The column loop taking the last safe column first.
LoopDescending(stk, b, row, from) ==
    LET S == {c \in from..(N - 1) : IsSafe(b, row, c)} IN
    IF S # {}
    THEN LET col == CHOOSE c \in S : \A d \in S : d <= c IN
         [stack |-> Append(stk, [row |-> row, col |-> col, pc |-> "place"]),
          board |-> PlaceQueen(b, row, col),
          event |-> <<"place", row, col>>,
          gen   |-> "running"]
    ELSE Return(stk, b)

\* The column loop without the is_safe test.
LoopNoSafetyCheck(stk, b, row, from) ==
    LET S == from..(N - 1) IN
    IF S # {}
    THEN LET col == CHOOSE c \in S : \A d \in S : c <= d IN
         [stack |-> Append(stk, [row |-> row, col |-> col, pc |-> "place"]),
          board |-> PlaceQueen(b, row, col),
          event |-> <<"place", row, col>>,
          gen   |-> "running"]
    ELSE Return(stk, b)

\* for col in range(self.N), continued at column from, in the frame of row
\* whose callers are stk: the first safe column is placed and yielded; with
\* none left the frame returns.
Loop(stk, b, row, from) ==
    LET S == {c \in from..(N - 1) : IsSafe(b, row, c)} IN
    IF S # {}
    THEN LET col == CHOOSE c \in S : \A d \in S : c <= d IN
         [stack |-> Append(stk, [row |-> row, col |-> col, pc |-> "place"]),
          board |-> PlaceQueen(b, row, col),
          event |-> <<"place", row, col>>,
          gen   |-> "running"]
    ELSE Return(stk, b)

\* An entry without the skip over rows that already hold a queen.
EnterNoSkip(stk, b, rowparam) ==
    IF rowparam = N
    THEN [stack |-> Append(stk, [row |-> rowparam, pc |-> "solution"]),
          board |-> b,
          event |-> <<"solution", b.queens>>,
          gen   |-> "running"]
    ELSE Loop(stk, b, rowparam, 0)

\* An entry that returns on a full board without yielding the solution.
EnterNoSolution(stk, b, rowparam) ==
    LET row == NextEmptyRow(b.queens, rowparam) IN
    IF row = N THEN Return(stk, b) ELSE Loop(stk, b, row, 0)

\* A call solve_generator(rowparam) made with the frames stk suspended
\* below it.
Enter(stk, b, rowparam) ==
    LET row == NextEmptyRow(b.queens, rowparam) IN
    IF row = N
    THEN [stack |-> Append(stk, [row |-> row, pc |-> "solution"]),
          board |-> b,
          event |-> <<"solution", b.queens>>,
          gen   |-> "running"]
    ELSE Loop(stk, b, row, 0)

\* The frames below the top one.
Callers == SubSeq(stack, 1, Len(stack) - 1)

\* A resumption that ends the whole search after its first solution.
AdvanceStopsAtSolution ==
    IF gen = "ready" THEN Enter(<<>>, Board, 0)
    ELSE LET top == stack[Len(stack)] IN
         CASE top.pc = "place" ->
                Enter([stack EXCEPT ![Len(stack)].pc = "yield_from"], Board,
                      top.row + 1)
           [] top.pc = "remove" -> Loop(Callers, Board, top.row, top.col + 1)
           [] top.pc = "solution" ->
                [stack |-> <<>>, board |-> Board, event |-> StopIteration,
                 gen |-> "done"]

\* A resumption whose column loop tries the removed column again.
AdvanceRetriesColumn ==
    IF gen = "ready" THEN Enter(<<>>, Board, 0)
    ELSE LET top == stack[Len(stack)] IN
         CASE top.pc = "place" ->
                Enter([stack EXCEPT ![Len(stack)].pc = "yield_from"], Board,
                      top.row + 1)
           [] top.pc = "remove" -> Loop(Callers, Board, top.row, top.col)
           [] top.pc = "solution" -> Return(Callers, Board)

\* What one next(gen) does to a generator that is not finished: it runs
\* from the yield where the top frame is suspended to the next yield.
Advance ==
    IF gen = "ready" THEN Enter(<<>>, Board, 0)
    ELSE LET top == stack[Len(stack)] IN
         CASE top.pc = "place" ->
                Enter([stack EXCEPT ![Len(stack)].pc = "yield_from"], Board,
                      top.row + 1)
           [] top.pc = "remove" -> Loop(Callers, Board, top.row, top.col + 1)
           [] top.pc = "solution" -> Return(Callers, Board)

\* A snapshot that is self.queens itself.
SnapshotIsAlias == FALSE

\* yield ("solution", self.queens[:]): the slice builds a new list.
SnapshotIsCopy == TRUE

\* The list objects handed out, after a resume that delivers event e.
Snapshot(e) ==
    IF e[1] = "solution"
    THEN Append(snapshots, [copy |-> SnapshotIsCopy, at |-> e[2]])
    ELSE snapshots

\* The number of resumes that reported exhaustion.
DoneCount == Len(SelectSeq(results, LAMBDA e : e = StopIteration))

\* next(gen): one resume of the search by its caller.
Resume ==
    /\ solver = "ok"
    /\ IF gen = "done"
       THEN /\ DoneCount < MaxDone
            /\ results' = Append(results, StopIteration)
            /\ UNCHANGED <<queens, cols, diag1, diag2, gen, stack, snapshots>>
       ELSE LET a == Advance IN
            /\ queens' = a.board.queens
            /\ cols' = a.board.cols
            /\ diag1' = a.board.diag1
            /\ diag2' = a.board.diag2
            /\ stack' = a.stack
            /\ gen' = a.gen
            /\ results' = Append(results, a.event)
            /\ snapshots' = Snapshot(a.event)
    /\ UNCHANGED <<N, initial_queens, solver, lastCall>>
    /\ UNCHANGED guiVars

Next == Construct \/ Resume

(* --------------------------- direct calls ----------------------------- *)

\* The exception place_queen(r, c) raises on the board b, or "none": the
\* list assignment is its only statement that can raise.
PlaceFault(b, r, c) == IF IndexRaises(b, r) THEN "IndexError" ELSE "none"

\* The exception remove_queen(r, c) raises on the board b, or "none":
\* set.remove raises KeyError for a key the set does not hold.
RemoveFault(b, r, c) ==
    IF IndexRaises(b, r) THEN "IndexError"
    ELSE IF c \notin b.cols \/ (r - c) \notin b.diag1 \/ (r + c) \notin b.diag2
         THEN "KeyError"
         ELSE "none"

\* The board after place_queen(r, c), whatever it raises.
PlaceQueenCall(b, r, c) ==
    IF PlaceFault(b, r, c) = "none" THEN PlaceQueen(b, r, c) ELSE b

\* The board after remove_queen(r, c), whatever it raises: the statements
\* before the one that raises have taken effect.
RemoveQueenCall(b, r, c) ==
    IF IndexRaises(b, r) THEN b
    ELSE LET b1 == [b EXCEPT !.queens[ListIndex(b, r)] = Empty]
             b2 == [b1 EXCEPT !.cols = @ \ {c}]
             b3 == [b2 EXCEPT !.diag1 = @ \ {r - c}] IN
         IF c \notin b.cols THEN b1
         ELSE IF (r - c) \notin b.diag1 THEN b2
         ELSE IF (r + c) \notin b.diag2 THEN b3
         ELSE RemoveQueen(b, r, c)

\* The arguments of the direct calls: every cell, and the row just past
\* the board.
CallRows == 0..N
CallCols == 0..(N - 1)

\* A caller other than the search calls solver.place_queen(r, c).
CallPlace ==
    \E r \in CallRows, c \in CallCols :
        /\ solver = "ok"
        /\ lastCall.n < MaxCalls
        /\ LET b == PlaceQueenCall(Board, r, c) IN
           /\ queens' = b.queens
           /\ cols' = b.cols
           /\ diag1' = b.diag1
           /\ diag2' = b.diag2
        /\ lastCall' = [n |-> lastCall.n + 1, op |-> "place", r |-> r, c |-> c,
                        before |-> Board, fault |-> PlaceFault(Board, r, c)]
        /\ UNCHANGED <<N, initial_queens, solver, gen, stack, results,
                       snapshots>>
        /\ UNCHANGED guiVars

\* A caller other than the search calls solver.remove_queen(r, c).
CallRemove ==
    \E r \in CallRows, c \in CallCols :
        /\ solver = "ok"
        /\ lastCall.n < MaxCalls
        /\ LET b == RemoveQueenCall(Board, r, c) IN
           /\ queens' = b.queens
           /\ cols' = b.cols
           /\ diag1' = b.diag1
           /\ diag2' = b.diag2
        /\ lastCall' = [n |-> lastCall.n + 1, op |-> "remove", r |-> r, c |-> c,
                        before |-> Board, fault |-> RemoveFault(Board, r, c)]
        /\ UNCHANGED <<N, initial_queens, solver, gen, stack, results,
                       snapshots>>
        /\ UNCHANGED guiVars

NextDirect == Construct \/ CallPlace \/ CallRemove

(* ------------------------------ driver -------------------------------- *)

\* The sizes the user enters in the Spinbox. Its arrows give 4..16, but
\* its entry field takes any integer; small ones are drawn here.
GuiSizes == 1..MaxGuiN

\* (r, c) in self.queen_items
HasItem(items, cell) == \E i \in 1..Len(items) : items[i] = cell

\* self.queen_items[(r, c)] = ...: a new key goes last, a key already
\* there keeps its place.
PutItem(items, cell) ==
    IF HasItem(items, cell) THEN items ELSE Append(items, cell)

\* del self.queen_items[(r, c)]
DelItem(items, cell) == SelectSeq(items, LAMBDA x : x # cell)

\* is_manual_safe(r, c)
IsManualSafe(items, r, c) ==
    \A i \in 1..Len(items) :
        LET qr == items[i][1]
            qc == items[i][2] IN
        ~(qr = r \/ qc = c \/ qr - qc = r - c \/ qr + qc = r + c)

\* The user enters another size in the Spinbox.
SetSize ==
    \E n \in GuiSizes :
        /\ callback = "idle"
        /\ n # size_var
        /\ size_var' = n
        /\ UNCHANGED <<N, initial_queens, solver, queens, cols, diag1, diag2,
                       gen, stack, results, snapshots, lastCall, gui_N,
                       queen_items, next_button, solution_counter, timers,
                       callback, paused, passed>>

\* on_cell_click(r, c) for a cell of the drawn board: a queen there is
\* deleted; otherwise one is put there when is_manual_safe allows it.
OnCellClick ==
    \E r \in 0..(gui_N - 1), c \in 0..(gui_N - 1) :
        /\ callback = "idle"
        /\ queen_items' =
              IF HasItem(queen_items, <<r, c>>)
              THEN DelItem(queen_items, <<r, c>>)
              ELSE IF IsManualSafe(queen_items, r, c)
                   THEN PutItem(queen_items, <<r, c>>)
                   ELSE queen_items
        /\ UNCHANGED <<N, initial_queens, solver, queens, cols, diag1, diag2,
                       gen, stack, results, snapshots, lastCall, size_var,
                       gui_N, next_button, solution_counter, timers, callback,
                       paused, passed>>

\* start_solver up to its call of animate_step: the board is drawn anew
\* when the size changed, the keys of queen_items become the seed of a new
\* solver and generator. An exception of NQueenSolver ends the handler
\* there, with self.solver and self.solver_gen as they were.
StartSolver ==
    /\ callback = "idle"
    /\ timers < MaxTimers
    /\ LET n == size_var
           initial == IF gui_N # n THEN <<>> ELSE queen_items IN
       /\ gui_N' = n
       /\ queen_items' = initial
       /\ passed' = <<n, initial>>
       /\ IF SeedRaises(EmptyBoard(n), initial, 1)
          THEN UNCHANGED <<N, initial_queens, solver, queens, cols, diag1,
                           diag2, gen, stack, results, snapshots, next_button,
                           solution_counter, callback, paused>>
          ELSE LET b == InitBoard(n, initial) IN
               /\ N' = n
               /\ initial_queens' = initial
               /\ solver' = "ok"
               /\ queens' = b.queens
               /\ cols' = b.cols
               /\ diag1' = b.diag1
               /\ diag2' = b.diag2
               /\ gen' = "ready"
               /\ stack' = <<>>
               /\ results' = <<>>
               /\ snapshots' = <<>>
               /\ next_button' = "disabled"
               /\ solution_counter' = 0
               /\ callback' = "animate"
               /\ paused' = FALSE
    /\ UNCHANGED <<lastCall, size_var, timers>>

\* next_solution up to its call of animate_step; a disabled button does
\* not call its command.
NextSolution ==
    /\ callback = "idle"
    /\ timers < MaxTimers
    /\ next_button = "normal"
    /\ next_button' = "disabled"
    /\ callback' = "animate"
    /\ paused' = FALSE
    /\ UNCHANGED <<N, initial_queens, solver, queens, cols, diag1, diag2, gen,
                   stack, results, snapshots, lastCall, size_var, gui_N,
                   queen_items, solution_counter, timers, passed>>

\* reset_board: the board is drawn for the size in the Spinbox and
\* queen_items is emptied; the solver, its generator and the pending
\* callbacks are left as they are.
ResetBoard ==
    /\ callback = "idle"
    /\ gui_N' = size_var
    /\ queen_items' = <<>>
    /\ next_button' = "disabled"
    /\ UNCHANGED <<N, initial_queens, solver, queens, cols, diag1, diag2, gen,
                   stack, results, snapshots, lastCall, size_var,
                   solution_counter, timers, callback, paused, passed>>

\* A pending root.after callback comes due: the event loop calls
\* animate_step.
TimerFires ==
    /\ callback = "idle"
    /\ timers > 0
    /\ timers' = timers - 1
    /\ callback' = "animate"
    /\ UNCHANGED <<N, initial_queens, solver, queens, cols, diag1, diag2, gen,
                   stack, results, snapshots, lastCall, size_var, gui_N,
                   queen_items, next_button, solution_counter, paused, passed>>

\* animate_step: the next event is taken from self.solver_gen. Exhaustion
\* disables the button; a solution is counted, enables the button and ends
\* the chain; a placement or removal is mirrored in queen_items and the
\* next animate_step is scheduled.
AnimateStep ==
    /\ callback = "animate"
    /\ callback' = "idle"
    /\ IF gen = "done"
       THEN /\ results' = Append(results, StopIteration)
            /\ next_button' = "disabled"
            /\ UNCHANGED <<queens, cols, diag1, diag2, gen, stack, snapshots,
                           queen_items, solution_counter, timers, paused>>
       ELSE LET a == Advance
                e == a.event IN
            /\ queens' = a.board.queens
            /\ cols' = a.board.cols
            /\ diag1' = a.board.diag1
            /\ diag2' = a.board.diag2
            /\ stack' = a.stack
            /\ gen' = a.gen
            /\ results' = Append(results, e)
            /\ snapshots' = Snapshot(e)
            /\ queen_items' =
                  CASE e[1] = "place" -> PutItem(queen_items, <<e[2], e[3]>>)
                    [] e[1] = "remove" -> DelItem(queen_items, <<e[2], e[3]>>)
                    [] OTHER -> queen_items
            /\ solution_counter' =
                  IF e[1] = "solution" THEN solution_counter + 1
                  ELSE solution_counter
            /\ next_button' =
                  CASE e[1] = "solution" -> "normal"
                    [] e = StopIteration -> "disabled"
                    [] OTHER -> next_button
            /\ paused' = (paused \/ e[1] = "solution")
            /\ timers' =
                  IF e[1] \in {"place", "remove"} THEN timers + 1 ELSE timers
    /\ UNCHANGED <<N, initial_queens, solver, lastCall, size_var, gui_N,
                   passed>>

NextGui ==
    \/ SetSize
    \/ OnCellClick
    \/ StartSolver
    \/ NextSolution
    \/ ResetBoard
    \/ TimerFires
    \/ AnimateStep

(* ------------------------------ inputs -------------------------------- *)

Cells(n) == (0..(n - 1)) \X (0..(n - 1))

\* A seed pair the caller may add to the seed s: in bounds, its row still
\* empty, and safe against the pairs placed before it.
SeedPairOk(n, s, p) ==
    LET b == InitBoard(n, s) IN
    /\ b.queens[p[1]] = Empty
    /\ IsSafe(b, p[1], p[2])

RECURSIVE SeedsOfLen(_, _)
\* The sequentially safe seeds of length k on an n x n board.
SeedsOfLen(n, k) ==
    IF k = 0 THEN {<<>>}
    ELSE UNION { {Append(s, p) : p \in {x \in Cells(n) : SeedPairOk(n, s, x)}}
                 : s \in SeedsOfLen(n, k - 1) }

Min(a, b) == IF a < b THEN a ELSE b

\* The seeds of the seeded specification: every sequentially safe seed of
\* at most MaxSeedLen pairs, and every one that fills the board.
SafeSeeds(n) ==
    UNION {SeedsOfLen(n, k) : k \in 0..Min(n, MaxSeedLen)} \cup SeedsOfLen(n, n)

RECURSIVE SeqsUpTo(_, _)
\* All sequences over S of length at most k.
SeqsUpTo(S, k) ==
    IF k = 0 THEN {<<>>}
    ELSE LET T == SeqsUpTo(S, k - 1) IN
         T \cup {Append(s, x) : s \in T, x \in S}

NotConstructed ==
    /\ solver = "none"
    /\ queens = <<>>
    /\ cols = {}
    /\ diag1 = {}
    /\ diag2 = {}
    /\ gen = "none"
    /\ stack = <<>>
    /\ results = <<>>
    /\ snapshots = <<>>
    /\ lastCall = [n |-> 0, op |-> "none"]

\* No driver: the solver is used on its own.
NoGui ==
    /\ size_var = 0
    /\ gui_N = 0
    /\ queen_items = <<>>
    /\ next_button = "disabled"
    /\ solution_counter = 0
    /\ timers = 0
    /\ callback = "idle"
    /\ paused = FALSE
    /\ passed = <<>>

\* Seeded searches: the caller passes a sequentially safe seed.
Init ==
    /\ N \in 0..MaxN
    /\ initial_queens \in SafeSeeds(N)
    /\ NotConstructed
    /\ NoGui

Spec == Init /\ [][Next]_vars

\* Seeded searches whose caller keeps resuming: animate_step takes the next
\* event and schedules itself again, so a step that can be taken is taken.
SpecLive == Init /\ [][Next]_vars /\ WF_vars(Next)

\* Unseeded searches.
InitUnseeded ==
    /\ N \in 0..MaxNUnseeded
    /\ initial_queens = <<>>
    /\ NotConstructed
    /\ NoGui

SpecUnseeded == InitUnseeded /\ [][Next]_vars

\* Any size and any seed the caller can write down, valid or not.
InitAnySeed ==
    /\ N \in (-1)..MaxNAny
    /\ initial_queens \in SeqsUpTo(((-1)..N) \X ((-1)..N), MaxAnyLen)
    /\ NotConstructed
    /\ NoGui

SpecAnySeed == InitAnySeed /\ [][Next]_vars

\* A caller constructs an unseeded solver and calls place_queen and
\* remove_queen itself.
InitDirect ==
    /\ N \in 1..MaxNDirect
    /\ initial_queens = <<>>
    /\ NotConstructed
    /\ NoGui

SpecDirect == InitDirect /\ [][NextDirect]_vars

\* The driver after the user entered a size and pressed Reset on the
\* freshly built window: the board is drawn for that size, no queen is on
\* it, no solver exists and no callback is pending.
InitGui ==
    /\ N = 0
    /\ initial_queens = <<>>
    /\ NotConstructed
    /\ size_var \in GuiSizes
    /\ gui_N = size_var
    /\ queen_items = <<>>
    /\ next_button = "disabled"
    /\ solution_counter = 0
    /\ timers = 0
    /\ callback = "idle"
    /\ paused = FALSE
    /\ passed = <<>>

SpecGui == InitGui /\ [][NextGui]_vars

(* ------------------------- observed results --------------------------- *)

\* The events delivered so far: every result but the reports of exhaustion.
Events == SelectSeq(results, LAMBDA e : e # StopIteration)

\* The snapshots of the Solution events delivered so far, in order.
Solutions ==
    LET S == SelectSeq(results, LAMBDA e : e[1] = "solution") IN
    [i \in 1..Len(S) |-> S[i][2]]

\* The assignment right after construction.
SeedQueens == InitBoard(N, initial_queens).queens

IsPrefix(s, t) == Len(s) <= Len(t) /\ SubSeq(t, 1, Len(s)) = s

\* No queen of the assignment q attacks the cell (r, c) by column or diagonal.
Unattacked(q, r, c) ==
    \A r2 \in DOMAIN q :
        q[r2] # Empty =>
            /\ q[r2] # c
            /\ r2 - q[r2] # r - c
            /\ r2 + q[r2] # r + c

\* The assignment q is complete and no two of its queens share a column or
\* a diagonal.
ConflictFree(q) ==
    /\ DOMAIN q = 0..(N - 1)
    /\ \A r \in DOMAIN q : q[r] \in 0..(N - 1)
    /\ \A r1, r2 \in DOMAIN q :
          r1 < r2 =>
              /\ q[r1] # q[r2]
              /\ r1 - q[r1] # r2 - q[r2]
              /\ r1 + q[r1] # r2 + q[r2]

(* --------------------------------- C1 --------------------------------- *)

RECURSIVE RefSearch(_)
RECURSIVE RefCols(_, _, _)
\* The reference backtracking on an assignment q: the smallest empty row is
\* taken; with none, the assignment is a solution.
RefSearch(q) ==
    LET E == {r \in DOMAIN q : q[r] = Empty} IN
    IF E = {} THEN << <<"solution", q>> >>
    ELSE RefCols(q, CHOOSE r \in E : \A r2 \in E : r <= r2, 0)

\* The columns col..N-1 of row, in increasing order: each safe one gives
\* Place, the whole sub-search, Remove.
RefCols(q, row, col) ==
    IF col > N - 1 THEN <<>>
    ELSE (IF Unattacked(q, row, col)
          THEN << <<"place", row, col>> >>
               \o RefSearch([q EXCEPT ![row] = col])
               \o << <<"remove", row, col>> >>
          ELSE <<>>)
         \o RefCols(q, row, col + 1)

\* C1: the events delivered by repeated resumes are, at every moment, a
\* prefix of the event sequence of the reference recursive backtracking
\* (smallest empty row, columns ascending, Place / sub-search / Remove), a
\* function of N and the seed alone, and at exhaustion they are all of it.
C1_EventsFollowReference ==
    solver = "ok" =>
        /\ IsPrefix(Events, RefSearch(SeedQueens))
        /\ gen = "done" => Events = RefSearch(SeedQueens)

\* A seeded search on a 4 x 4 board has run to exhaustion through
\* placements, a solution and removals.
C1_Witness ==
    /\ gen = "done"
    /\ N = 4
    /\ Len(initial_queens) = 1
    /\ Len(Solutions) >= 1
    /\ \E i \in 1..Len(results) : results[i][1] = "remove"

(* --------------------------------- C2 --------------------------------- *)

\* The number of solutions of the n-queens problem.
KnownCount(n) ==
    CASE n = 1 -> 1
      [] n = 2 -> 0
      [] n = 3 -> 0
      [] n = 4 -> 2
      [] n = 5 -> 10
      [] n = 6 -> 4
      [] n = 7 -> 40
      [] n = 8 -> 92

\* C2: an unseeded search on a board of size N >= 1, run to exhaustion,
\* has emitted as many Solution events as the N-queens problem has
\* solutions.
C2_SolutionCount ==
    (gen = "done" /\ N >= 1) => Len(Solutions) = KnownCount(N)

\* The unseeded 6 x 6 search is exhausted with its 4 solutions.
C2_Witness == gen = "done" /\ N = 6 /\ initial_queens = <<>> /\ Len(Solutions) = 4

(* --------------------------------- C3 --------------------------------- *)

\* C3: every Solution snapshot has length N, holds no empty sentinel, and
\* no two of its queens share a column or a diagonal.
C3_SolutionsConflictFree ==
    \A i \in 1..Len(results) :
        results[i][1] = "solution" => ConflictFree(results[i][2])

\* A seeded search on a board of at least 4 rows has emitted a solution
\* after placing queens of its own.
C3_Witness ==
    /\ N >= 4
    /\ initial_queens # <<>>
    /\ Len(Solutions) >= 1
    /\ \E i \in 1..Len(results) : results[i][1] = "place"

(* --------------------------------- C4 --------------------------------- *)

RECURSIVE Replay(_, _, _)
\* The assignment q after the events ev[i..]: a Place sets its row, a
\* Remove clears it, a Solution changes nothing.
Replay(q, ev, i) ==
    IF i > Len(ev) THEN q
    ELSE LET e == ev[i] IN
         Replay(CASE e[1] = "place" -> [q EXCEPT ![e[2]] = e[3]]
                  [] e[1] = "remove" -> [q EXCEPT ![e[2]] = Empty]
                  [] OTHER -> q,
                ev, i + 1)

\* The board is the seed board with the delivered events applied.
BoardIsReplay == solver = "ok" => queens = Replay(SeedQueens, Events, 1)

\* A resume changes the assignment by the event it returns and no more.
ResumeEffect ==
    results' # results =>
        LET e == results'[Len(results')] IN
        CASE e[1] = "place" ->
               /\ queens[e[2]] = Empty
               /\ queens' = [queens EXCEPT ![e[2]] = e[3]]
          [] e[1] = "remove" ->
               /\ queens[e[2]] = e[3]
               /\ queens' = [queens EXCEPT ![e[2]] = Empty]
          [] OTHER -> queens' = queens

\* C4: each resume changes the board by exactly the event it returns
\* (Place sets one empty row, Remove clears that row, Solution and Done
\* change nothing), so that the board always equals the seed board with
\* the delivered events applied, and the seed board before the first resume.
C4_BoardReflectsEvents == []BoardIsReplay /\ [][ResumeEffect]_vars

\* A search has delivered placements, removals and a solution, has been
\* exhausted, and the board is the seed board again.
C4_Witness ==
    /\ gen = "done"
    /\ Len(Events) >= 3
    /\ Len(Solutions) >= 1
    /\ queens = SeedQueens

(* --------------------------------- C5 --------------------------------- *)

\* Once a resume has reported exhaustion, a step only reports it again.
DoneStaysDone ==
    (results # <<>> /\ results[Len(results)] = StopIteration) =>
        /\ results' = Append(results, StopIteration)
        /\ UNCHANGED <<queens, cols, diag1, diag2>>

\* C5: exhaustion is terminal and idempotent: after a resume has reported
\* Done, every later resume reports Done, delivers no event, does not
\* restart the search and leaves the assignment and the three constraint
\* sets unchanged.
C5_ExhaustionIdempotent == [][DoneStaysDone]_vars

\* An exhausted search that delivered events has been resumed again.
C5_Witness == DoneCount >= 2 /\ Len(Events) >= 3

(* --------------------------------- C6 --------------------------------- *)

\* The seed is one that construction is to reject: a pair lies outside
\* [0, n), or repeats the row of an earlier pair, or shares a column or a
\* diagonal with an earlier pair.
SeedBad(n, seed) ==
    \E i \in 1..Len(seed) :
        \/ seed[i][1] \notin 0..(n - 1)
        \/ seed[i][2] \notin 0..(n - 1)
        \/ \E j \in 1..(i - 1) :
              \/ seed[j][1] = seed[i][1]
              \/ seed[j][2] = seed[i][2]
              \/ seed[j][1] - seed[j][2] = seed[i][1] - seed[i][2]
              \/ seed[j][1] + seed[j][2] = seed[i][1] + seed[i][2]

\* C6: constructing a search with a seed that has an unsafe pair, a
\* repeated row or a pair out of bounds fails, and no search is created
\* (any failure is accepted here, whatever its name).
C6_UnsafeSeedRejected ==
    (solver # "none" /\ SeedBad(N, initial_queens)) =>
        (solver # "ok" /\ gen = "none")

(* --------------------------------- C7 --------------------------------- *)

\* C7: constructing a search with a negative board size fails; no search
\* is created and no result, not even exhaustion, is ever obtained from it.
C7_NegativeSizeRejected ==
    (solver # "none" /\ N < 0) =>
        (solver # "ok" /\ gen = "none" /\ results = <<>>)

(* --------------------------------- C8 --------------------------------- *)

\* The conflict-free complete assignments that agree with the seed on
\* every seeded row.
ExpectedSolutions ==
    {a \in [0..(N - 1) -> 0..(N - 1)] :
        /\ ConflictFree(a)
        /\ \A i \in 1..Len(initial_queens) :
              a[initial_queens[i][1]] = initial_queens[i][2]}

\* a comes before b in lexicographic order.
LexLess(a, b) ==
    \E k \in 0..(N - 1) :
        /\ a[k] < b[k]
        /\ \A j \in 0..(k - 1) : a[j] = b[j]

\* C8: at exhaustion the Solution events are exactly the conflict-free
\* complete assignments that agree with the seed on its rows, each once, in
\* ascending lexicographic order; N = 4 with the seed [(0,1)] gives the one
\* solution [1,3,0,2] and then Done.
C8_SolutionsAreTheCompletions ==
    gen = "done" =>
        /\ {Solutions[i] : i \in 1..Len(Solutions)} = ExpectedSolutions
        /\ \A i \in 1..(Len(Solutions) - 1) :
              LexLess(Solutions[i], Solutions[i + 1])
        /\ results[Len(results)] = StopIteration
        /\ (N = 4 /\ initial_queens = << <<0, 1>> >>) =>
              Solutions = << (0 :> 1 @@ 1 :> 3 @@ 2 :> 0 @@ 3 :> 2) >>

\* The search on a 4 x 4 board seeded with a queen in a middle row (row 2,
\* column 0) is exhausted and has found its one completion.
C8_Witness ==
    /\ gen = "done"
    /\ N = 4
    /\ initial_queens = << <<2, 0>> >>
    /\ Solutions = << (0 :> 1 @@ 1 :> 3 @@ 2 :> 0 @@ 3 :> 2) >>

(* --------------------------------- C9 --------------------------------- *)

\* C9: when the seed fills every row, the first resume gives a Solution
\* whose snapshot is the seeded assignment and every later resume gives
\* Done; no Place or Remove is ever delivered.
C9_FullSeedOneSolution ==
    (solver = "ok" /\ Len(initial_queens) = N) =>
        \A i \in 1..Len(results) :
            IF i = 1
            THEN /\ results[i][1] = "solution"
                 /\ DOMAIN results[i][2] = 0..(N - 1)
                 /\ \A k \in 1..N :
                       results[i][2][initial_queens[k][1]] =
                           initial_queens[k][2]
            ELSE results[i] = StopIteration

\* A 4 x 4 board seeded with four queens has given its solution and then
\* reported exhaustion.
C9_Witness ==
    /\ N = 4
    /\ Len(initial_queens) = 4
    /\ Len(results) >= 2
    /\ results[1][1] = "solution"
    /\ results[2] = StopIteration

(* --------------------------------- C10 -------------------------------- *)

\* C10: for N = 0 the first resume gives a Solution with the empty
\* assignment and every later resume gives Done.
C10_EmptyBoardOneSolution ==
    (solver = "ok" /\ N = 0) =>
        \A i \in 1..Len(results) :
            results[i] = IF i = 1 THEN <<"solution", <<>>>> ELSE StopIteration

\* The search on the 0 x 0 board has given its solution and reported
\* exhaustion.
C10_Witness ==
    /\ N = 0
    /\ Len(results) >= 2
    /\ results[1] = <<"solution", <<>>>>
    /\ results[2] = StopIteration

(* --------------------------------- C11 -------------------------------- *)

RECURSIVE Match(_, _, _)
\* The events ev[i..] read with the placed queens open so far (oldest
\* first): a Place opens its queen, a Remove must close the queen opened
\* last. Gives whether every Remove did, and the queens left open.
Match(ev, i, open) ==
    IF i > Len(ev) THEN [ok |-> TRUE, open |-> open]
    ELSE LET e == ev[i] IN
         CASE e[1] = "place" -> Match(ev, i + 1, Append(open, <<e[2], e[3]>>))
           [] e[1] = "remove" ->
                IF open # <<>> /\ open[Len(open)] = <<e[2], e[3]>>
                THEN Match(ev, i + 1, SubSeq(open, 1, Len(open) - 1))
                ELSE [ok |-> FALSE, open |-> open]
           [] OTHER -> Match(ev, i + 1, open)

\* C11: placements and removals are balanced with stack discipline: every
\* Remove(r,c) removes the queen placed most recently among those still on
\* the board, and in the full trace up to Done every Place(r,c) has been
\* matched by exactly one later Remove(r,c).
C11_PlaceRemoveBalanced ==
    solver = "ok" =>
        LET m == Match(Events, 1, <<>>) IN
        /\ m.ok
        /\ gen = "done" => m.open = <<>>

\* A seeded search with nested placements, a solution and removals has
\* been exhausted.
C11_Witness ==
    /\ gen = "done"
    /\ initial_queens # <<>>
    /\ Len(Solutions) >= 1
    /\ \E i \in 1..(Len(results) - 1) :
          results[i][1] = "place" /\ results[i + 1][1] = "place"

(* --------------------------------- C12 -------------------------------- *)

\* The event a step delivers was allowed in the state the step left.
PreconditionsMet ==
    results' # results =>
        LET e == results'[Len(results')] IN
        CASE e[1] = "place" ->
               /\ queens[e[2]] = Empty
               /\ IsSafe(Board, e[2], e[3])
               /\ Unattacked(queens, e[2], e[3])
          [] e[1] = "remove" -> queens[e[2]] = e[3]
          [] OTHER -> TRUE

\* C12: the search calls place and remove with their preconditions met:
\* before every Place(r,c) row r is empty and is_safe(r,c) holds (no placed
\* queen shares the column or a diagonal), and before every Remove(r,c)
\* assignment[r] = c.
C12_SearchMeetsPreconditions == [][PreconditionsMet]_vars

\* A seeded search has just removed a queen it had placed below another of
\* its own.
C12_Witness ==
    /\ initial_queens # <<>>
    /\ Len(results) >= 3
    /\ results[Len(results)][1] = "remove"
    /\ Len(stack) >= 2

(* --------------------------------- C13 -------------------------------- *)

\* The rows that hold a queen.
Placed == {r \in DOMAIN queens : queens[r] # Empty}

\* C13: the three constraint sets are in lockstep with the assignment:
\* cols, diag1 and diag2 are the columns, the keys r - c and the keys r + c
\* of exactly the placed queens, and each set has one element per queen.
C13_Lockstep ==
    solver = "ok" =>
        /\ cols = {queens[r] : r \in Placed}
        /\ diag1 = {r - queens[r] : r \in Placed}
        /\ diag2 = {r + queens[r] : r \in Placed}
        /\ Cardinality(cols) = Cardinality(Placed)
        /\ Cardinality(diag1) = Cardinality(Placed)
        /\ Cardinality(diag2) = Cardinality(Placed)

\* A seeded search holds at least three queens after a removal.
C13_Witness ==
    /\ gen = "running"
    /\ initial_queens # <<>>
    /\ Cardinality(Placed) >= 3
    /\ \E i \in 1..Len(results) : results[i][1] = "remove"

(* --------------------------------- C14 -------------------------------- *)

RECURSIVE Pow(_, _)
Pow(n, k) == IF k = 0 THEN 1 ELSE n * Pow(n, k - 1)

RECURSIVE SumPow(_, _)
\* n + n^2 + ... + n^k
SumPow(n, k) == IF k = 0 THEN 0 ELSE Pow(n, k) + SumPow(n, k - 1)

\* A bound on the events of one search: with m rows left empty by the
\* seed, every Place fills the next empty row of a distinct partial
\* assignment of at most m rows, every Remove matches a Place, and every
\* Solution is a distinct complete assignment.
EventBound ==
    LET m == Cardinality({r \in DOMAIN SeedQueens : SeedQueens[r] = Empty}) IN
    2 * SumPow(N, m) + Pow(N, m)

\* C14: a search that is resumed repeatedly reaches Done, and it does so
\* after finitely many events: never more than EventBound of them.
C14_Terminates ==
    /\ <>(gen = "done")
    /\ [](solver = "ok" => Len(Events) <= EventBound)

\* A seeded search that placed and removed queens has reached Done.
C14_Witness ==
    /\ gen = "done"
    /\ initial_queens # <<>>
    /\ Len(Events) >= 4
    /\ results[Len(results)] = StopIteration

(* --------------------------------- C15 -------------------------------- *)

\* What the holder of the i-th snapshot reads in it now: a list of its
\* own keeps its content, self.queens itself shows the board.
Held(i) == IF snapshots[i].copy THEN snapshots[i].at ELSE queens

PreconditionViolated ==
    /\ lastCall.op # "none"
    /\ lastCall.r \in 0..(N - 1)
    /\ IF lastCall.op = "place"
       THEN \/ lastCall.before.queens[lastCall.r] # Empty
            \/ ~IsSafe(lastCall.before, lastCall.r, lastCall.c)
       ELSE lastCall.before.queens[lastCall.r] # lastCall.c

\* C16: place and remove called with a violated precondition fault and
\* leave the assignment and the three constraint sets unchanged.
C16_FaultOnViolatedPrecondition ==
    PreconditionViolated =>
        /\ lastCall.fault # "none"
        /\ Board = lastCall.before

(* --------------------------------- C17 -------------------------------- *)

\* The rows the seed names.
SeededRows == {initial_queens[k][1] : k \in 1..Len(initial_queens)}

\* C17: the search never disturbs seeded queens: no Place or Remove event
\* names a seeded row, every seeded row keeps its seeded column in every
\* state, and when the search reports Done the assignment and the three
\* constraint sets are those construction left.
C17_SeedUndisturbed ==
    solver = "ok" =>
        /\ \A k \in 1..Len(initial_queens) :
              queens[initial_queens[k][1]] = initial_queens[k][2]
        /\ \A i \in 1..Len(results) :
              results[i][1] \in {"place", "remove"} =>
                  results[i][2] \notin SeededRows
        /\ gen = "done" => Board = InitBoard(N, initial_queens)

\* A search seeded with two queens, neither in row 0, has placed and
\* removed queens of its own and is exhausted.
C17_Witness ==
    /\ gen = "done"
    /\ Len(initial_queens) = 2
    /\ 0 \notin SeededRows
    /\ Len(Events) >= 2

(* --------------------------------- C18 -------------------------------- *)

\* animate_step takes an event from the generator in this step.
TakesEvent ==
    /\ callback = "animate"
    /\ callback' = "idle"
    /\ results' # results
    /\ results'[Len(results')] # StopIteration

\* C18: the driver pauses at every solution: at most one animate_step
\* callback is ever pending, and once animate_step has consumed a solution
\* no event is taken from the generator until the user presses Next
\* Solution or Start Solving.
C18_PausesAtSolution ==
    /\ [](timers <= 1)
    /\ [][TakesEvent => ~paused]_vars

(* --------------------------------- C19 -------------------------------- *)

\* C19: every seed start_solver passes to NQueenSolver is valid for the N
\* passed with it: all its pairs lie in [0, N) and no two share a row, a
\* column or a diagonal.
C19_PassedSeedsValid ==
    passed # <<>> => ~SeedBad(passed[1], passed[2])

====
